---- MODULE Spec2Model ----
(***************************************************************************)
(* Model of scrape_eventbrite.py: the Eventbrite scraper's pipeline        *)
(*   get_token -> fetch_events (search_region per state, normalize_events, *)
(*   filter_upcoming, dedupe by (name, start)) -> save_json,               *)
(* with main's try/except and exit codes.                                  *)
(*                                                                         *)
(* JSON / Python values are tagged records, so that a value of any shape   *)
(* can stand in any field:                                                 *)
(*   Absent  the key is not in the dict          Null   None / JSON null   *)
(*   Str(s)  a string     Bool(b)  a boolean     Obj(r) a dict (r a record *)
(*   of tagged values, Absent for a key the dict does not hold)            *)
(***************************************************************************)
EXTENDS Integers, Sequences, FiniteSets, TLC

Absent == [t |-> "absent"]
Null == [t |-> "null"]
Str(s) == [t |-> "str", v |-> s]
Bool(b) == [t |-> "bool", v |-> b]
Obj(r) == [t |-> "obj", v |-> r]
List(s) == [t |-> "list", v |-> s]

(* dict.get(k): the value under k, None when the key is absent. *)
Get(d, k) == IF k \in DOMAIN d.v /\ d.v[k].t # "absent" THEN d.v[k] ELSE Null

(* Python truthiness, as used by `x or {}` and `if not x`. *)
Truthy(x) ==
    CASE x.t = "absent" -> FALSE
      [] x.t = "null" -> FALSE
      [] x.t = "str" -> x.v # ""
      [] x.t = "bool" -> x.v
      [] x.t = "obj" -> \E k \in DOMAIN x.v : x.v[k].t # "absent"
      [] x.t = "list" -> x.v # <<>>
      [] OTHER -> TRUE

EmptyDict == Obj([none |-> Absent])

(* `x or {}` *)
OrEmpty(x) == IF Truthy(x) THEN x ELSE EmptyDict

(* Whether `.get` exists on the value: only dicts have it; a truthy string  *)
(* or boolean raises AttributeError.                                       *)
HasGet(x) == x.t = "obj"

(***************************************************************************)
(* normalize_events                                                        *)
(***************************************************************************)
NormalizeRaises(e) ==
    \/ ~HasGet(e)
    \/ ~HasGet(OrEmpty(Get(e, "venue")))
    \/ ~HasGet(OrEmpty(Get(OrEmpty(Get(e, "venue")), "address")))
    \/ ~HasGet(OrEmpty(Get(e, "name")))
    \/ ~HasGet(OrEmpty(Get(e, "start")))
    \/ ~HasGet(OrEmpty(Get(e, "end")))

(* Mutant of NormalizeOne: the state is read from address["state"]. *)
NormalizeOne_StateKey(e) ==
    LET venue == OrEmpty(Get(e, "venue"))
        address == OrEmpty(Get(venue, "address"))
    IN  [id |-> Get(e, "id"),
         name |-> Get(OrEmpty(Get(e, "name")), "text"),
         url |-> Get(e, "url"),
         start |-> Get(OrEmpty(Get(e, "start")), "local"),
         end |-> Get(OrEmpty(Get(e, "end")), "local"),
         is_free |-> Get(e, "is_free"),
         status |-> Get(e, "status"),
         city |-> Get(address, "city"),
         state |-> Get(address, "state"),
         venue_name |-> Get(venue, "name"),
         address |-> Get(address, "localized_address_display")]

NormalizeOne(e) ==
    LET venue == OrEmpty(Get(e, "venue"))
        address == OrEmpty(Get(venue, "address"))
    IN  [id |-> Get(e, "id"),
         name |-> Get(OrEmpty(Get(e, "name")), "text"),
         url |-> Get(e, "url"),
         start |-> Get(OrEmpty(Get(e, "start")), "local"),
         end |-> Get(OrEmpty(Get(e, "end")), "local"),
         is_free |-> Get(e, "is_free"),
         status |-> Get(e, "status"),
         city |-> Get(address, "city"),
         state |-> Get(address, "region"),
         venue_name |-> Get(venue, "name"),
         address |-> Get(address, "localized_address_display")]

(* The result of a call: a value, or the exception it raised. *)
Ok(v) == [raised |-> FALSE, val |-> v, exc |-> "none"]
Raise(x) == [raised |-> TRUE, val |-> <<>>, exc |-> x]

normalize_events(events) ==
    IF \E i \in 1..Len(events) : NormalizeRaises(events[i])
    THEN Raise("AttributeError: 'str' object has no attribute 'get'")
    ELSE Ok([i \in 1..Len(events) |-> NormalizeOne(events[i])])

(***************************************************************************)
(* filter_upcoming.  Time is counted in days from 2025-01-01T00:00:00; the *)
(* strings below are the start values the inputs are drawn from.           *)
(***************************************************************************)
LOOKAHEAD_DAYS == 60

IsoNaive ==
    [s \in {"2024-12-31T00:00:00", "2025-01-01T00:00:00", "2025-01-11T00:00:00",
            "2025-03-02T00:00:00", "2025-03-03T00:00:00", "2025-03-12T00:00:00"} |->
        CASE s = "2024-12-31T00:00:00" -> 0 - 1
          [] s = "2025-01-01T00:00:00" -> 0
          [] s = "2025-01-11T00:00:00" -> 10
          [] s = "2025-03-02T00:00:00" -> 60
          [] s = "2025-03-03T00:00:00" -> 61
          [] s = "2025-03-12T00:00:00" -> 70]

IsoAware == [s \in {"2025-01-11T00:00:00+00:00"} |-> 10]

(* datetime.fromisoformat(start): a naive or an offset-aware datetime,     *)
(* ValueError for a string that is no ISO date-time, TypeError for a value *)
(* that is no string.                                                      *)
fromisoformat(start) ==
    CASE start.t # "str" -> [kind |-> "TypeError", day |-> 0]
      [] start.t = "str" /\ start.v \in DOMAIN IsoNaive ->
            [kind |-> "naive", day |-> IsoNaive[start.v]]
      [] start.t = "str" /\ start.v \in DOMAIN IsoAware ->
            [kind |-> "aware", day |-> IsoAware[start.v]]
      [] OTHER -> [kind |-> "ValueError", day |-> 0]

(* One iteration of the loop's body: "skip", "keep", or "raise" (a start   *)
(* that is no string, or the comparison of the naive `now` with an aware   *)
(* datetime, both TypeError and not caught).                               *)
(* Mutant of FilterVerdict: the cutoff is excluded, `now <= dt < cutoff`. *)
FilterVerdict_CutoffExcluded(e, t, days) ==
    LET start == e.start
        dt == fromisoformat(start)
    IN  IF ~Truthy(start) THEN "skip"
        ELSE CASE dt.kind = "TypeError" -> "raise"
               [] dt.kind = "ValueError" -> "skip"
               [] dt.kind = "aware" -> "raise"
               [] dt.kind = "naive" ->
                     IF t <= dt.day /\ dt.day < t + days THEN "keep" ELSE "skip"

FilterVerdict(e, t, days) ==
    LET start == e.start
        dt == fromisoformat(start)
    IN  IF ~Truthy(start) THEN "skip"
        ELSE CASE dt.kind = "TypeError" -> "raise"
               [] dt.kind = "ValueError" -> "skip"
               [] dt.kind = "aware" -> "raise"
               [] dt.kind = "naive" ->
                     IF t <= dt.day /\ dt.day <= t + days THEN "keep" ELSE "skip"

filter_upcoming(events, days, t) ==
    LET Keep(e) == FilterVerdict(e, t, days) = "keep"
    IN  IF \E i \in 1..Len(events) : FilterVerdict(events[i], t, days) = "raise"
        THEN Raise("TypeError: can't compare offset-naive and offset-aware datetimes")
        ELSE Ok(SelectSeq(events, Keep))

(***************************************************************************)
(* fetch_events: the dedupe loop and the payload                           *)
(***************************************************************************)
(* A tuple (name, start) is hashable when both members are. *)
Hashable(x) == x.t # "obj"

Key(e) == <<e.name, e.start>>

RECURSIVE DedupeLoop(_, _, _)
DedupeLoop(upcoming, seen, unique) ==
    IF upcoming = <<>> THEN unique
    ELSE LET e == Head(upcoming)
         IN  IF Key(e) \in seen
             THEN DedupeLoop(Tail(upcoming), seen, unique)
             ELSE DedupeLoop(Tail(upcoming), seen \cup {Key(e)}, Append(unique, e))

(* Mutant of Dedupe: of the events of one key the last is kept. *)
RECURSIVE DedupeLoop_KeepsLast(_)
DedupeLoop_KeepsLast(upcoming) ==
    IF upcoming = <<>> THEN <<>>
    ELSE LET e == Head(upcoming)
             rest == Tail(upcoming)
         IN  IF \E i \in 1..Len(rest) : Key(rest[i]) = Key(e)
             THEN DedupeLoop_KeepsLast(rest)
             ELSE <<e>> \o DedupeLoop_KeepsLast(rest)

Dedupe_KeepsLast(upcoming) ==
    IF \E i \in 1..Len(upcoming) :
            ~Hashable(upcoming[i].name) \/ ~Hashable(upcoming[i].start)
    THEN Raise("TypeError: unhashable type")
    ELSE Ok(DedupeLoop_KeepsLast(upcoming))

Dedupe(upcoming) ==
    IF \E i \in 1..Len(upcoming) :
            ~Hashable(upcoming[i].name) \/ ~Hashable(upcoming[i].start)
    THEN Raise("TypeError: unhashable type")
    ELSE Ok(DedupeLoop(upcoming, {}, <<>>))

(***************************************************************************)
(* The inputs: what the API serves, the credential, the clock              *)
(***************************************************************************)
MaxPages == 2

DEFAULT_STATES == <<"Montana", "Wyoming">>
DEFAULT_QUERY == "veteran OR veterans OR military OR service member"
DEFAULT_WITHIN == "500mi"

Text(s) == Obj([text |-> Str(s)])
Local(s) == Obj([local |-> Str(s)])

Event(id, name, start) ==
    Obj([id |-> Str(id), name |-> name, url |-> Absent, start |-> start,
         end |-> Absent, is_free |-> Bool(FALSE), status |-> Str("live"),
         venue |-> Obj([name |-> Absent,
                        address |-> Obj([city |-> Str("Billings"), region |-> Str("MT"),
                                         localized_address_display |-> Null])])])

(* A name holding a lone surrogate, as json.loads makes of "\ud800". *)
SurrogateName == "Vet <U+D800> Fair"

EvA == Event("1", Text("Vet Job Fair"), Local("2025-01-11T00:00:00"))
EvB == Event("2", Text("Vet Job Fair"), Local("2025-01-11T00:00:00"))
EvNoName == Event("3", Absent, Local("2025-03-02T00:00:00"))
EvNoStart == Event("4", Text("Stand Down"), Obj([local |-> Null]))
EvLate == Event("5", Text("Stand Down"), Local("2025-03-12T00:00:00"))
EvNameIsString == Event("6", Str("Vet Job Fair"), Local("2025-01-11T00:00:00"))
EvAware == Event("7", Text("Vet Job Fair"), Local("2025-01-11T00:00:00+00:00"))
EvNameIsDict == Event("8", Obj([text |-> Obj([html |-> Str("Vet Job Fair")])]),
                      Local("2025-01-11T00:00:00"))
EvSurrogate == Event("9", Text(SurrogateName), Local("2025-01-11T00:00:00"))

(* The `events` member of a page's body: on any page, and on pages that    *)
(* announce no further page.                                               *)
PagedEventFields == {Null, List(<<EvA>>), List(<<EvB, EvNoName>>)}
LastPageEventFields ==
    {Absent, List(<<EvNoStart, EvLate>>), List(<<EvNameIsString>>), List(<<EvAware>>),
     List(<<EvNameIsDict>>), List(<<EvSurrogate>>)}

(* The `pagination` member of a page's body. *)
PaginationFields ==
    {Absent, Obj([has_more_items |-> Bool(FALSE)]), Obj([has_more_items |-> Bool(TRUE)])}

PageBodies ==
    {Obj([events |-> ev, pagination |-> pg]) : ev \in PagedEventFields, pg \in PaginationFields}
    \cup {Obj([events |-> ev, pagination |-> Absent]) : ev \in LastPageEventFields}

(* A body that is no JSON at all, and a JSON body that is no object. *)
NotJson == [t |-> "text", v |-> "<html>"]
MalformedBodies == {NotJson, Null}

NonOkStatuses == {204, 404, 500}

Tokens == {Null, Str(""), Str("secret")}
NowValues == {0, 10}
RunNowValues == {0}

(***************************************************************************)
(* The program state                                                       *)
(***************************************************************************)
VARIABLES
    token,          \* os.environ.get("EVENTBRITE_TOKEN")
    now,            \* what datetime.utcnow() returns in filter_upcoming
    pc,             \* where the program is
    si,             \* fetch_events: index of `state` in `states`
    page,           \* search_region: params["page"]
    results,        \* search_region: results
    warnings,       \* search_region: warnings
    all_raw,        \* fetch_events: all_raw
    all_warnings,   \* fetch_events: all_warnings
    normalized,     \* fetch_events: normalized
    upcoming,       \* fetch_events: upcoming, the input of the dedupe loop
    payload,        \* main: payload
    exc,            \* the exception raised, "none" when there is none
    file,           \* the content of events.json
    exitCode,       \* the process's exit code, RUNNING while it runs
    served          \* the HTTP exchanges so far: region, page, response

vars == <<token, now, pc, si, page, results, warnings, all_raw, all_warnings,
          normalized, upcoming, payload, exc, file, exitCode, served>>

EXIT_OK == 0
EXIT_FAILURE == 1
EXIT_NO_TOKEN == 2
RUNNING == 0 - 1

NoPayload == [generated |-> FALSE, error |-> "<no payload>"]
ErrorPayload(msg) == [generated |-> FALSE, error |-> msg]
SuccessPayload(unique, warns) ==
    [generated |-> TRUE, source |-> "eventbrite", query |-> DEFAULT_QUERY,
     regions |-> DEFAULT_STATES, within |-> DEFAULT_WITHIN,
     count |-> Len(unique), events |-> unique, warnings |-> warns]

OldFile == [kind |-> "old", doc |-> NoPayload]
PartialFile == [kind |-> "partial", doc |-> NoPayload]
JsonFile(doc) == [kind |-> "json", doc |-> doc]

(* json.dump(payload, f, ensure_ascii=False) into a file opened with       *)
(* encoding="utf-8": a lone surrogate in a string cannot be encoded.  The  *)
(* strings of a payload that the API controls are the events' fields.      *)
Unencodable(x) == x.t = "str" /\ x.v = SurrogateName

DumpRaises(doc) ==
    /\ doc.generated
    /\ \E i \in 1..Len(doc.events) :
          \E f \in DOMAIN doc.events[i] : Unencodable(doc.events[i][f])

Init ==
    /\ token \in Tokens
    /\ now \in RunNowValues
    /\ pc = "main"
    /\ si = 0
    /\ page = 0
    /\ results = <<>>
    /\ warnings = <<>>
    /\ all_raw = <<>>
    /\ all_warnings = <<>>
    /\ normalized = <<>>
    /\ upcoming = <<>>
    /\ payload = NoPayload
    /\ exc = "none"
    /\ file = OldFile
    /\ exitCode = RUNNING
    /\ served = <<>>

(***************************************************************************)
(* get_token                                                               *)
(***************************************************************************)
(* Mutant of TokenMissing: `if token is None`. *)
TokenMissing_OnlyNone(tok) == tok.t = "null"

(* `if not token` *)
TokenMissing(tok) == ~Truthy(tok)

GetTokenMissing ==
    /\ pc = "main"
    /\ TokenMissing(token)
    /\ file' = JsonFile(ErrorPayload("EVENTBRITE_TOKEN is not set"))
    /\ exitCode' = EXIT_NO_TOKEN
    /\ pc' = "exited"
    /\ UNCHANGED <<token, now, si, page, results, warnings, all_raw, all_warnings,
                   normalized, upcoming, payload, exc, served>>

(* The token is there: main enters fetch_events, which enters search_region *)
(* for the first state.                                                    *)
GetTokenOk ==
    /\ pc = "main"
    /\ ~TokenMissing(token)
    /\ pc' = "search"
    /\ si' = 1
    /\ page' = 1
    /\ UNCHANGED <<token, now, results, warnings, all_raw, all_warnings,
                   normalized, upcoming, payload, exc, file, exitCode, served>>

(***************************************************************************)
(* search_region, one request per step                                     *)
(***************************************************************************)
Exchange(resp) == [region |-> DEFAULT_STATES[si], page |-> page, resp |-> resp]

Warning(tag) == [tag |-> tag, region |-> DEFAULT_STATES[si]]

StatusTag(status) ==
    CASE status = 404 -> "404"
      [] status = 204 -> "http_204"
      [] status = 500 -> "http_500"

(* Mutant of RequestError: the results gathered so far are dropped. *)
RequestError_DropsResults ==
    /\ pc = "search"
    /\ served' = Append(served, Exchange([kind |-> "request_error", status |-> 0, body |-> Null]))
    /\ warnings' = Append(warnings, Warning("request_error"))
    /\ results' = <<>>
    /\ pc' = "returned"
    /\ UNCHANGED <<token, now, si, page, all_raw, all_warnings,
                   normalized, upcoming, payload, exc, file, exitCode>>

(* session.get raises requests.RequestException: warn, break, return. *)
RequestError ==
    /\ pc = "search"
    /\ served' = Append(served, Exchange([kind |-> "request_error", status |-> 0, body |-> Null]))
    /\ warnings' = Append(warnings, Warning("request_error"))
    /\ pc' = "returned"
    /\ UNCHANGED <<token, now, si, page, results, all_raw, all_warnings,
                   normalized, upcoming, payload, exc, file, exitCode>>

(* Mutant of RespNotOk: the `break` is missing, the loop asks again. *)
RespNotOk_NoBreak ==
    /\ pc = "search"
    /\ \E status \in NonOkStatuses :
          /\ served' = Append(served, Exchange([kind |-> "status", status |-> status, body |-> Null]))
          /\ warnings' = Append(warnings, Warning(StatusTag(status)))
    /\ pc' = "search"
    /\ UNCHANGED <<token, now, si, page, results, all_raw, all_warnings,
                   normalized, upcoming, payload, exc, file, exitCode>>

(* A 404, or another status that is not 200: warn, break, return. *)
RespNotOk ==
    /\ pc = "search"
    /\ \E status \in NonOkStatuses :
          /\ served' = Append(served, Exchange([kind |-> "status", status |-> status, body |-> Null]))
          /\ warnings' = Append(warnings, Warning(StatusTag(status)))
    /\ pc' = "returned"
    /\ UNCHANGED <<token, now, si, page, results, all_raw, all_warnings,
                   normalized, upcoming, payload, exc, file, exitCode>>

(* resp.json() on a 200 response. *)
json(body) ==
    IF body.t = "text" THEN Raise("JSONDecodeError: Expecting value") ELSE Ok(body)

(* `data.get("events", []) or []` *)
PageEvents(data) ==
    LET x == Get(data, "events") IN IF Truthy(x) THEN x.v ELSE <<>>

(* `data.get("pagination", {})`: the default only when the key is absent. *)
Pagination(data) ==
    IF data.v.pagination.t = "absent" THEN EmptyDict ELSE data.v.pagination

(* A 200 whose body resp.json() rejects, or whose JSON is no object:       *)
(* lines 76-78 raise, outside the try of line 65, and nothing between them *)
(* and main's `except Exception` catches.                                  *)
Resp200Malformed ==
    /\ pc = "search"
    /\ \E body \in MalformedBodies :
          /\ served' = Append(served, Exchange([kind |-> "ok", status |-> 200, body |-> body]))
          /\ exc' = IF json(body).raised THEN json(body).exc
                    ELSE "AttributeError: 'NoneType' object has no attribute 'get'"
    /\ pc' = "except"
    /\ UNCHANGED <<token, now, si, page, results, warnings, all_raw, all_warnings,
                   normalized, upcoming, payload, file, exitCode>>

(* A 200 with a page of events; has_more_items decides whether the loop    *)
(* goes on.  The server stops announcing more pages at page MaxPages.      *)
Resp200Page ==
    /\ pc = "search"
    /\ \E body \in PageBodies :
          LET data == json(body).val
              more == Truthy(Get(Pagination(data), "has_more_items"))
          IN  /\ more => page < MaxPages
              /\ served' = Append(served, Exchange([kind |-> "ok", status |-> 200, body |-> body]))
              /\ results' = results \o PageEvents(data)
              /\ IF more
                 THEN page' = page + 1 /\ pc' = "search"
                 ELSE page' = page /\ pc' = "returned"
    /\ UNCHANGED <<token, now, si, warnings, all_raw, all_warnings,
                   normalized, upcoming, payload, exc, file, exitCode>>

(***************************************************************************)
(* fetch_events                                                            *)
(***************************************************************************)
(* Mutant of LoopBody: a state that returned a warning ends the loop. *)
LoopBody_StopsOnWarning ==
    /\ pc = "returned"
    /\ all_raw' = all_raw \o results
    /\ all_warnings' = all_warnings \o warnings
    /\ IF si < Len(DEFAULT_STATES) /\ warnings = <<>>
       THEN /\ si' = si + 1
            /\ page' = 1
            /\ results' = <<>>
            /\ warnings' = <<>>
            /\ pc' = "search"
       ELSE /\ pc' = "process"
            /\ UNCHANGED <<si, page, results, warnings>>
    /\ UNCHANGED <<token, now, normalized, upcoming, payload, exc, file, exitCode, served>>

(* The body of `for state in states` once search_region has returned:      *)
(* extend all_raw and all_warnings, then call search_region for the next   *)
(* state or leave the loop.                                                *)
LoopBody ==
    /\ pc = "returned"
    /\ all_raw' = all_raw \o results
    /\ all_warnings' = all_warnings \o warnings
    /\ IF si < Len(DEFAULT_STATES)
       THEN /\ si' = si + 1
            /\ page' = 1
            /\ results' = <<>>
            /\ warnings' = <<>>
            /\ pc' = "search"
       ELSE /\ pc' = "process"
            /\ UNCHANGED <<si, page, results, warnings>>
    /\ UNCHANGED <<token, now, normalized, upcoming, payload, exc, file, exitCode, served>>

(* After the loop: normalize, filter, dedupe, build the payload. *)
Process ==
    /\ pc = "process"
    /\ LET norm == normalize_events(all_raw)
           filtered == filter_upcoming(norm.val, LOOKAHEAD_DAYS, now)
           unique == Dedupe(filtered.val)
       IN  CASE norm.raised ->
                  /\ exc' = norm.exc
                  /\ pc' = "except"
                  /\ UNCHANGED <<normalized, upcoming, payload>>
             [] ~norm.raised /\ filtered.raised ->
                  /\ exc' = filtered.exc
                  /\ pc' = "except"
                  /\ normalized' = norm.val
                  /\ UNCHANGED <<upcoming, payload>>
             [] ~norm.raised /\ ~filtered.raised /\ unique.raised ->
                  /\ exc' = unique.exc
                  /\ pc' = "except"
                  /\ normalized' = norm.val
                  /\ upcoming' = filtered.val
                  /\ UNCHANGED payload
             [] OTHER ->
                  /\ normalized' = norm.val
                  /\ upcoming' = filtered.val
                  /\ payload' = SuccessPayload(unique.val, all_warnings)
                  /\ pc' = "save"
                  /\ UNCHANGED exc
    /\ UNCHANGED <<token, now, si, page, results, warnings, all_raw, all_warnings,
                   file, exitCode, served>>

(***************************************************************************)
(* main: save_json(payload) and the except branch                          *)
(***************************************************************************)
(* open(path, "w") truncates; a dump that raises leaves what it had        *)
(* written so far.                                                         *)
SaveRaises ==
    /\ pc = "save"
    /\ DumpRaises(payload)
    /\ file' = PartialFile
    /\ exc' = "UnicodeEncodeError: surrogates not allowed"
    /\ pc' = "except"
    /\ UNCHANGED <<token, now, si, page, results, warnings, all_raw, all_warnings,
                   normalized, upcoming, payload, exitCode, served>>

SaveOk ==
    /\ pc = "save"
    /\ ~DumpRaises(payload)
    /\ file' = JsonFile(payload)
    /\ exitCode' = EXIT_OK
    /\ pc' = "exited"
    /\ UNCHANGED <<token, now, si, page, results, warnings, all_raw, all_warnings,
                   normalized, upcoming, payload, exc, served>>

(* Mutant of Except: the error payload is not written. *)
Except_NoSave ==
    /\ pc = "except"
    /\ exitCode' = EXIT_FAILURE
    /\ pc' = "exited"
    /\ UNCHANGED <<token, now, si, page, results, warnings, all_raw, all_warnings,
                   normalized, upcoming, payload, exc, file, served>>

(* except Exception as exc: save_json({"generated": False, "error": str(exc)}); return 1 *)
Except ==
    /\ pc = "except"
    /\ file' = JsonFile(ErrorPayload(exc))
    /\ exitCode' = EXIT_FAILURE
    /\ pc' = "exited"
    /\ UNCHANGED <<token, now, si, page, results, warnings, all_raw, all_warnings,
                   normalized, upcoming, payload, exc, served>>

Next ==
    \/ GetTokenMissing
    \/ GetTokenOk
    \/ RequestError
    \/ RespNotOk
    \/ Resp200Malformed
    \/ Resp200Page
    \/ LoopBody
    \/ Process
    \/ SaveRaises
    \/ SaveOk
    \/ Except

Spec == Init /\ [][Next]_vars

(***************************************************************************)
(* What the exchanges on the wire say, read off `served` alone             *)
(***************************************************************************)
RECURSIVE Flatten(_)
Flatten(ss) == IF ss = <<>> THEN <<>> ELSE Head(ss) \o Flatten(Tail(ss))

RegionExchanges(k) ==
    SelectSeq(served, LAMBDA x : x.region = DEFAULT_STATES[k])

IsFailure(x) == x.resp.kind \in {"request_error", "status"}

IsMalformed(x) == x.resp.kind = "ok" /\ x.resp.body.t # "obj"

IsPage(x) == x.resp.kind = "ok" /\ x.resp.body.t = "obj"

AnnouncesMore(x) ==
    /\ IsPage(x)
    /\ x.resp.body.v.pagination.t = "obj"
    /\ x.resp.body.v.pagination.v.has_more_items = Bool(TRUE)

ServedEvents(x) ==
    IF IsPage(x) /\ x.resp.body.v.events.t = "list" THEN x.resp.body.v.events.v ELSE <<>>

RegionContribution(k) ==
    LET ex == RegionExchanges(k)
    IN  Flatten([i \in 1..Len(ex) |-> ServedEvents(ex[i])])

FailureTags == {"request_error", "404", "http_204", "http_500"}

(* warns is what a region that ended as ex ended owes: one warning naming  *)
(* the region when its last exchange failed, none otherwise.               *)
WarningsMatch(warns, k) ==
    LET ex == RegionExchanges(k)
    IN  IF ex # <<>> /\ IsFailure(ex[Len(ex)])
        THEN /\ Len(warns) = 1
             /\ warns[1].region = DEFAULT_STATES[k]
             /\ warns[1].tag \in FailureTags
             /\ (warns[1].tag = "request_error") <=> (ex[Len(ex)].resp.kind = "request_error")
        ELSE warns = <<>>

FailedRegions == {k \in 1..Len(DEFAULT_STATES) :
                    RegionExchanges(k) # <<>> /\ IsFailure(RegionExchanges(k)[Len(RegionExchanges(k))])}

(* An exception raised inside search_region. *)
SearchExceptions ==
    {"JSONDecodeError: Expecting value",
     "AttributeError: 'NoneType' object has no attribute 'get'"}

FetchLoopDone ==
    \/ pc \in {"process", "save"}
    \/ /\ pc \in {"except", "exited"}
       /\ token \notin {Null, Str("")}
       /\ exc \notin SearchExceptions

(***************************************************************************)
(* C1: a region whose pagination stops on a transport error or a non-200   *)
(* status does not abort the run: an exception leaves search_region only   *)
(* on a malformed 200, never on a failure; once the loop over the states   *)
(* is done every state has been searched, all_raw is the concatenation, in *)
(* state order, of what each state's own 200 pages held (so a state's      *)
(* contribution depends on its own exchanges only), the failures are       *)
(* exactly the warnings, one per failed state, and the payload built from  *)
(* them has generated = TRUE and carries those warnings.                   *)
(***************************************************************************)
C1_RegionFailureIsolated ==
    /\ (exc \in SearchExceptions) => IsMalformed(served[Len(served)])
    /\ (served # <<>> /\ IsFailure(served[Len(served)]) /\ pc = "except")
          => exc \notin SearchExceptions
    /\ FetchLoopDone =>
          /\ \A k \in 1..Len(DEFAULT_STATES) : RegionExchanges(k) # <<>>
          /\ all_raw = Flatten([k \in 1..Len(DEFAULT_STATES) |-> RegionContribution(k)])
          /\ Len(all_warnings) = Cardinality(FailedRegions)
          /\ \A k \in FailedRegions :
                \E i \in 1..Len(all_warnings) : all_warnings[i].region = DEFAULT_STATES[k]
    /\ pc = "save" => payload.generated /\ payload.warnings = all_warnings
    /\ (pc = "exited" /\ exitCode = EXIT_OK) =>
          file.doc.generated /\ file.doc.warnings = all_warnings

C1_Witness ==
    /\ pc = "exited"
    /\ file.kind = "json"
    /\ file.doc.generated
    /\ FailedRegions = {1}
    /\ RegionContribution(1) # <<>>
    /\ RegionContribution(2) # <<>>
    /\ file.doc.events # <<>>
    /\ Len(file.doc.warnings) = 1

(***************************************************************************)
(* C2: with EVENTBRITE_TOKEN unset or empty no HTTP request is ever made,  *)
(* the program ends with events.json holding exactly                      *)
(* {generated: false, error: "EVENTBRITE_TOKEN is not set"} and exit code  *)
(* 2, and no run with the token present ends with that code.               *)
(***************************************************************************)
C2_MissingTokenShortCircuits ==
    /\ (token = Null \/ token = Str("")) =>
          /\ served = <<>>
          /\ pc \in {"main", "exited"}
          /\ pc = "exited" =>
                /\ file = [kind |-> "json",
                           doc |-> [generated |-> FALSE, error |-> "EVENTBRITE_TOKEN is not set"]]
                /\ exitCode = 2
    /\ (pc = "exited" /\ token # Null /\ token # Str("")) => exitCode \in {0, 1}

C2_Witness ==
    /\ pc = "exited"
    /\ token = Str("")
    /\ exitCode = EXIT_NO_TOKEN
    /\ file.kind = "json"

(***************************************************************************)
(* C3: the payload's events are the dedupe loop's input with, for each     *)
(* (name, start) key, only the first event of that key kept, in input      *)
(* order: no two events of the output share a key and the output is a      *)
(* subsequence of the input.                                               *)
(***************************************************************************)
SameKey(a, b) == a.name = b.name /\ a.start = b.start

FirstOfKey(seq) ==
    {i \in 1..Len(seq) : \A j \in 1..(i - 1) : ~SameKey(seq[j], seq[i])}

RECURSIVE TakeIdx(_, _, _)
TakeIdx(seq, S, i) ==
    IF i > Len(seq) THEN <<>>
    ELSE (IF i \in S THEN <<seq[i]>> ELSE <<>>) \o TakeIdx(seq, S, i + 1)

C3_DedupeKeepsFirst ==
    payload.generated =>
        /\ payload.events = TakeIdx(upcoming, FirstOfKey(upcoming), 1)
        /\ \A i, j \in 1..Len(payload.events) :
              i # j => ~SameKey(payload.events[i], payload.events[j])
        /\ payload.count = Len(payload.events)

C3_Witness ==
    /\ pc = "exited"
    /\ file.kind = "json"
    /\ file.doc.generated
    /\ RegionContribution(1) = <<EvA>>
    /\ RegionContribution(2) = <<EvB, EvNoName>>
    /\ Cardinality({i \in 1..Len(file.doc.events) :
                      file.doc.events[i].name = Str("Vet Job Fair")}) = 1
    /\ file.doc.events[1].id = Str("1")

(***************************************************************************)
(* C4: no event of the success payload has a missing name or a missing     *)
(* start.                                                                  *)
(***************************************************************************)
C4_NoMissingNameOrStart ==
    (file.kind = "json" /\ file.doc.generated) =>
        \A i \in 1..Len(file.doc.events) :
            /\ file.doc.events[i].name \notin {Null, Str("")}
            /\ file.doc.events[i].start \notin {Null, Str("")}

(***************************************************************************)
(* C5: a 200 response with a malformed body is recorded as a warning for   *)
(* its region, the other regions are still searched, and the run ends with *)
(* the success payload and exit code 0.                                    *)
(***************************************************************************)
C5_MalformedIsRecoverable ==
    (pc = "exited" /\ \E i \in 1..Len(served) : IsMalformed(served[i])) =>
        /\ exitCode = EXIT_OK
        /\ file.kind = "json"
        /\ file.doc.generated
        /\ \A k \in 1..Len(DEFAULT_STATES) : RegionExchanges(k) # <<>>

C8_NoRequestAfterStop ==
    /\ \A k \in 1..Len(DEFAULT_STATES) :
          LET ex == RegionExchanges(k)
          IN  /\ \A i \in 1..Len(ex) : ex[i].page = i
              /\ \A i \in 1..(Len(ex) - 1) : AnnouncesMore(ex[i])
    /\ (pc = "search" /\ RegionExchanges(si) # <<>>) =>
          AnnouncesMore(RegionExchanges(si)[Len(RegionExchanges(si))])
    /\ \A i \in 1..Len(served) : \A j \in (i + 1)..Len(served) :
          served[j].region = served[i].region => AnnouncesMore(served[i])

C8_Witness ==
    /\ pc = "search"
    /\ si = 2
    /\ Len(RegionExchanges(1)) = 2
    /\ AnnouncesMore(RegionExchanges(1)[1])
    /\ IsFailure(RegionExchanges(1)[2])
    /\ Len(RegionExchanges(2)) = 1

(***************************************************************************)
(* C10: what search_region returns is the concatenation, in page order, of *)
(* the events of the 200 pages it received, whatever ended the loop, with  *)
(* exactly one warning for the region when the loop ended on a transport   *)
(* error, a 404 or another non-200 status, and no warning otherwise.       *)
(***************************************************************************)
C10_ResultsKeptOnStop ==
    pc = "returned" =>
        /\ results = RegionContribution(si)
        /\ WarningsMatch(warnings, si)

C10_Witness ==
    /\ pc = "returned"
    /\ Len(RegionExchanges(si)) = 2
    /\ IsFailure(RegionExchanges(si)[2])
    /\ results = <<EvB, EvNoName>>
    /\ Len(warnings) = 1

(***************************************************************************)
(* normalize_events on its own: every raw event in which any subset of the *)
(* fields is missing, the missing ones all absent or all null              *)
(***************************************************************************)
MaxEvents == 2

RawEventsMissing(m) ==
    LET Addresses == {m} \cup
            {Obj([city |-> c, region |-> r, localized_address_display |-> l]) :
                c \in {m, Str("Billings")}, r \in {m, Str("MT")},
                l \in {m, Str("1 Main St, Billings, MT")}}
        Venues == {m} \cup
            {Obj([name |-> n, address |-> a]) : n \in {m, Str("VFW Post 6774")}, a \in Addresses}
        Names == {m, Obj([text |-> m]), Obj([text |-> Str("Vet Job Fair")])}
        Starts == {m, Obj([local |-> m]), Obj([local |-> Str("2025-01-11T00:00:00")])}
        Ends == {m, Obj([local |-> m]), Obj([local |-> Str("2025-01-11T04:00:00")])}
    IN  {Obj([id |-> i, name |-> n, url |-> u, start |-> s, end |-> e,
              is_free |-> f, status |-> st, venue |-> v]) :
            i \in {m, Str("1")}, n \in Names, u \in {m, Str("https://evt/1")},
            s \in Starts, e \in Ends, f \in {m, Bool(FALSE)}, st \in {m, Str("live")},
            v \in Venues}

RawEvents == RawEventsMissing(Absent) \cup RawEventsMissing(Null)

(* The events that lists of more than one event are made of. *)
FewRawEvents ==
    {EvA, EvNoName,
     Obj([id |-> Null, name |-> Null, url |-> Null, start |-> Null, end |-> Null,
          is_free |-> Null, status |-> Null, venue |-> Null])}

RECURSIVE SeqsUpTo(_, _)
SeqsUpTo(S, n) ==
    IF n = 0 THEN {<<>>}
    ELSE LET shorter == SeqsUpTo(S, n - 1)
         IN  shorter \cup {Append(q, x) : q \in {r \in shorter : Len(r) = n - 1}, x \in S}

InitNormalize ==
    /\ all_raw \in {<<e>> : e \in RawEvents} \cup SeqsUpTo(FewRawEvents, MaxEvents)
    /\ pc = "normalize_call"
    /\ token = Str("secret")
    /\ now = 0
    /\ si = 0
    /\ page = 0
    /\ results = <<>>
    /\ warnings = <<>>
    /\ all_warnings = <<>>
    /\ normalized = <<>>
    /\ upcoming = <<>>
    /\ payload = NoPayload
    /\ exc = "none"
    /\ file = OldFile
    /\ exitCode = RUNNING
    /\ served = <<>>

NormalizeCall ==
    /\ pc = "normalize_call"
    /\ LET norm == normalize_events(all_raw)
       IN  /\ normalized' = norm.val
           /\ exc' = norm.exc
    /\ pc' = "normalize_ret"
    /\ UNCHANGED <<token, now, si, page, results, warnings, all_raw, all_warnings,
                   upcoming, payload, file, exitCode, served>>

NextNormalize == NormalizeCall

SpecNormalize == InitNormalize /\ [][NextNormalize]_vars

(* The value at a path of keys, None as soon as a key is absent or its     *)
(* value null.                                                             *)
RECURSIVE AtPath(_, _)
AtPath(x, path) ==
    IF path = <<>> THEN (IF x.t = "absent" THEN Null ELSE x)
    ELSE IF x.t # "obj" \/ Head(path) \notin DOMAIN x.v THEN Null
         ELSE AtPath(x.v[Head(path)], Tail(path))

FieldPaths ==
    [id |-> <<"id">>, name |-> <<"name", "text">>, url |-> <<"url">>,
     start |-> <<"start", "local">>, end |-> <<"end", "local">>,
     is_free |-> <<"is_free">>, status |-> <<"status">>,
     city |-> <<"venue", "address", "city">>,
     state |-> <<"venue", "address", "region">>,
     venue_name |-> <<"venue", "name">>,
     address |-> <<"venue", "address", "localized_address_display">>]

(***************************************************************************)
(* C9: for raw events with any subset of their fields absent or null,      *)
(* normalize_events raises nothing and returns one record per raw event,   *)
(* in input order, with all eleven fields, each the value found at the     *)
(* field's path in the raw event, None where the path leads nowhere.       *)
(***************************************************************************)
C9_NormalizeTotal ==
    pc = "normalize_ret" =>
        /\ exc = "none"
        /\ Len(normalized) = Len(all_raw)
        /\ \A i \in 1..Len(all_raw) :
              /\ DOMAIN normalized[i] = DOMAIN FieldPaths
              /\ Cardinality(DOMAIN normalized[i]) = 11
              /\ \A f \in DOMAIN FieldPaths :
                    normalized[i][f] = AtPath(all_raw[i], FieldPaths[f])

C9_Witness ==
    /\ pc = "normalize_ret"
    /\ Len(all_raw) = 1
    /\ all_raw[1].v.name = Null
    /\ all_raw[1].v.venue.t = "obj"
    /\ all_raw[1].v.venue.v.address = Null
    /\ all_raw[1].v.is_free = Bool(FALSE)
    /\ normalized[1].name = Null
    /\ normalized[1].city = Null
    /\ normalized[1].is_free = Bool(FALSE)

(***************************************************************************)
(* filter_upcoming on its own: lists of normalized events over every kind  *)
(* of start, at two values of the clock                                    *)
(***************************************************************************)
MaxFiltered == 2

StartValues ==
    {Null, Str(""), Str("TBD"), Str("2025-01-11T00:00:00+00:00")}
    \cup {Str(s) : s \in DOMAIN IsoNaive}

(* One normalized event per start value, told apart by its id. *)
FilterEvents ==
    {NormalizeOne(Event(IF s.t = "str" THEN s.v ELSE "none", Text("Stand Down"),
                        Obj([local |-> s]))) : s \in StartValues}

InitFilter ==
    /\ normalized \in SeqsUpTo(FilterEvents, MaxFiltered)
    /\ now \in NowValues
    /\ pc = "filter_call"
    /\ token = Str("secret")
    /\ si = 0
    /\ page = 0
    /\ results = <<>>
    /\ warnings = <<>>
    /\ all_raw = <<>>
    /\ all_warnings = <<>>
    /\ upcoming = <<>>
    /\ payload = NoPayload
    /\ exc = "none"
    /\ file = OldFile
    /\ exitCode = RUNNING
    /\ served = <<>>

FilterCall ==
    /\ pc = "filter_call"
    /\ LET filtered == filter_upcoming(normalized, LOOKAHEAD_DAYS, now)
       IN  /\ upcoming' = filtered.val
           /\ exc' = filtered.exc
    /\ pc' = "filter_ret"
    /\ UNCHANGED <<token, now, si, page, results, warnings, all_raw, all_warnings,
                   normalized, payload, file, exitCode, served>>

NextFilter == FilterCall

SpecFilter == InitFilter /\ [][NextFilter]_vars

(* The day a start string names when it is a local (offset-less) ISO       *)
(* date-time.                                                              *)
LocalDay ==
    [s \in {"2024-12-31T00:00:00", "2025-01-01T00:00:00", "2025-01-11T00:00:00",
            "2025-03-02T00:00:00", "2025-03-03T00:00:00", "2025-03-12T00:00:00"} |->
        IF s = "2024-12-31T00:00:00" THEN 0 - 1
        ELSE IF s = "2025-01-01T00:00:00" THEN 0
        ELSE IF s = "2025-01-11T00:00:00" THEN 10
        ELSE IF s = "2025-03-02T00:00:00" THEN 60
        ELSE IF s = "2025-03-03T00:00:00" THEN 61
        ELSE 70]

StartsInWindow(e) ==
    /\ e.start.t = "str"
    /\ e.start.v \in DOMAIN LocalDay
    /\ now <= LocalDay[e.start.v]
    /\ LocalDay[e.start.v] <= now + 60

(* A start of the data model: missing, or a string that is a local ISO     *)
(* date-time or no date-time at all.                                       *)
LocalOrMissing(e) ==
    \/ e.start \in {Null, Str("")}
    \/ e.start.t = "str" /\ e.start.v \in (DOMAIN LocalDay \cup {"TBD"})

====
